---- MODULE Spec2Model ----
(***************************************************************************)
(* Model of the price-bar cache of the RSI/ATR scanner:                    *)
(*   src/src/database.py       ScannerDatabase (SQLite store)              *)
(*   src/src/cache_manager.py  CacheManager    (fetch decisions)           *)
(*   src/config/settings.py    configuration                               *)
(*                                                                         *)
(* Time.  A datetime is a number of ticks; a day has TicksPerDay ticks.    *)
(* datetime.date() is Date, datetime.combine(d, time.min) is Midnight and  *)
(* timedelta.days is Days.  A DATE column holds a day number: the store    *)
(* parses it with '%Y-%m-%d' (database.py:231), so the text order of the   *)
(* column is the order of the days.                                        *)
(*                                                                         *)
(* Tables.  price_data is a set of rows [symbol, date, close] (close       *)
(* stands for the OHLCV payload of the bar); cache_metadata maps a symbol  *)
(* to at most one row, kept as a sequence of length 0 or 1.                *)
(*                                                                         *)
(* Optional values are sequences of length 0 (None) or 1.                  *)
(*                                                                         *)
(* ret is the last call with its arguments and result; nops counts the     *)
(* calls of save_price_data; submitted[s] is the set of dates handed to    *)
(* save_price_data for s so far (history, read by no operation).           *)
(*                                                                         *)
(* The scanner and the indicator engine:                                   *)
(*   src/src/scanner.py        RSIScanner (scan_symbol, run_scan)          *)
(*   src/src/indicators.py     check_rsi_extremes, check_overextended      *)
(* indicators is a set of rows [symbol, date, rsi_14, atr_14]; scan_results *)
(* is the sequence of inserted rows.  pc, idx, tickers and results are the *)
(* position, loop index, ticker list and result list of run_scan.          *)
(* returned collects what get_historical_data handed back, each with the   *)
(* path that produced it (history, read by no operation).  calls is the    *)
(* sequence of the calls a cycle of run_scan has made to the broker and to *)
(* time.sleep (history, read by no operation).  input is the argument      *)
(* record drawn for a function of the indicator engine.                    *)
(***************************************************************************)
EXTENDS Integers, Sequences, FiniteSets, TLC

VARIABLES now, price_data, cache_metadata, ret, nops, submitted,
          indicators, scan_results, pc, idx, tickers, results, returned, calls,
          input

(* the state beside the price-bar cache                                    *)
scanvars ==
    <<indicators, scan_results, pc, idx, tickers, results, returned, calls, input>>

vars == <<now, price_data, cache_metadata, ret, nops, submitted,
          indicators, scan_results, pc, idx, tickers, results, returned, calls,
          input>>

----------------------------------------------------------------------------
(* Configuration: src/config/settings.py                                   *)

RSI_WINDOW == 14

ATR_WINDOW == 14

HIST_DAYS == 30

MAX_CACHE_AGE_DAYS == 1

(* cache_manager.py:37, the hard-coded sufficiency threshold              *)
MinCachedBars == 20

----------------------------------------------------------------------------
(* Bounds of the model                                                     *)

TicksPerDay == 2

MaxTicks == 2

MaxOps == 2

Symbols == {"AAA", "BBB"}

Closes == {1, 2}

(* Store runs: first and last day of the bar sets handed to                *)
(* save_price_data, and the days of the arguments of get_cached_price_data *)
StoreFirst == {1, 2, 3}

StoreLast == {2, 3}

QueryFirst == {1, 2, 3}

QueryLast == {1, 2, 3}

(* Coordinator runs: first and last day of the fetched bar sets, placed in *)
(* the required window of HIST_DAYS days that ends at the clock: bars up   *)
(* to the middle of the window, bars in the middle, the last 15 days, and  *)
(* no bar at all                                                           *)
FetchRanges == {<<0, 12>>, <<10, 12>>, <<16, 30>>, <<16, 15>>}

Now0 == HIST_DAYS * TicksPerDay

----------------------------------------------------------------------------
(* datetime arithmetic                                                     *)

Date(t) == t \div TicksPerDay

Midnight(d) == d * TicksPerDay

Days(delta) == delta \div TicksPerDay

None == <<>>

Some(x) == <<x>>

Max(a, b) == IF a >= b THEN a ELSE b

MinOf(S) == CHOOSE x \in S : \A y \in S : x <= y

MaxOf(S) == CHOOSE x \in S : \A y \in S : x >= y

(* a DataFrame of daily bars for the days first..last                      *)
Frame(first, last, close) ==
    [i \in 1..(last - first + 1) |-> [date |-> first + i - 1, close |-> close]]

FrameDates(df) == {df[i].date : i \in 1..Len(df)}

(* ORDER BY date: the rows by ascending date (UNIQUE(symbol, date) leaves   *)
(* one row per date of a symbol)                                           *)
RECURSIVE RowsFrom(_, _, _)
RowsFrom(rows, d, last) ==
    IF d > last THEN <<>>
    ELSE LET at == {r \in rows : r.date = d}
         IN  (IF at = {} THEN <<>> ELSE <<CHOOSE r \in at : TRUE>>)
                 \o RowsFrom(rows, d + 1, last)

OrderByDate(rows) ==
    IF rows = {} THEN <<>>
    ELSE LET dates == {r.date : r \in rows}
         IN  RowsFrom(rows, MinOf(dates), MaxOf(dates))

----------------------------------------------------------------------------
(* CacheManager.get_required_data_range                                    *)
get_required_data_range(t) ==
    [start |-> t - HIST_DAYS * TicksPerDay, end |-> t]

(* get_cached_price_data with the end day left out of the range            *)
get_cached_price_data_open_end(pd, symbol, start_date, end_date) ==
    LET sel == {r \in pd : /\ r.symbol = symbol
                           /\ r.date >= Date(start_date)
                           /\ r.date < Date(end_date)}
        df  == OrderByDate({[date |-> r.date, close |-> r.close] : r \in sel})
    IN  IF df # <<>> THEN Some(df) ELSE None

(* ScannerDatabase.get_cached_price_data                                   *)
get_cached_price_data(pd, symbol, start_date, end_date) ==
    LET sel == {r \in pd : /\ r.symbol = symbol
                           /\ r.date >= Date(start_date)
                           /\ r.date <= Date(end_date)}
        df  == OrderByDate({[date |-> r.date, close |-> r.close] : r \in sel})
    IN  IF df # <<>> THEN Some(df) ELSE None

(* df.to_sql(..., if_exists='append'): a plain multi-row INSERT, rejected  *)
(* as a whole by UNIQUE(symbol, date)                                      *)
UniqueViolation(pd, symbol, df) ==
    \/ \E i \in 1..Len(df) : \E r \in pd : r.symbol = symbol /\ r.date = df[i].date
    \/ \E i, j \in 1..Len(df) : i # j /\ df[i].date = df[j].date

InsertRows(pd, symbol, df) ==
    pd \cup {[symbol |-> symbol, date |-> df[i].date, close |-> df[i].close] :
                 i \in 1..Len(df)}

(* ScannerDatabase.save_price_data: the tables and the outcome after the   *)
(* call.  fault = TRUE is a failure of the cache_metadata statement (an    *)
(* sqlite3 error); to_sql has committed its own transaction by then, so    *)
(* the rollback of the with-block does not reach the inserted bars.        *)
save_price_data(pd, meta, symbol, df, t, fault) ==
    IF df = <<>> THEN
        [price_data |-> pd, cache_metadata |-> meta, raised |-> FALSE]
    ELSE IF UniqueViolation(pd, symbol, df) THEN
        [price_data |-> pd, cache_metadata |-> meta, raised |-> TRUE]
    ELSE IF fault THEN
        [price_data |-> InsertRows(pd, symbol, df), cache_metadata |-> meta,
         raised |-> TRUE]
    ELSE
        [price_data |-> InsertRows(pd, symbol, df),
         cache_metadata |->
             [meta EXCEPT ![symbol] =
                 Some([last_updated |-> t,
                       last_date    |-> MaxOf(FrameDates(df)),
                       record_count |-> Len(df)])],
         raised |-> FALSE]

(* ScannerDatabase.is_data_fresh                                           *)
is_data_fresh(meta, symbol, t) ==
    IF meta[symbol] = None THEN FALSE
    ELSE Days(t - meta[symbol][1].last_updated) < MAX_CACHE_AGE_DAYS

(* get_missing_date_range asking again for the last cached day             *)
get_missing_date_range_from_cached_end(pd, symbol, required_start, required_end) ==
    LET dates == {r.date : r \in {q \in pd : q.symbol = symbol}}
    IN  IF dates = {} THEN
            Some([start |-> required_start, end |-> required_end])
        ELSE
            LET cached_start == MinOf(dates)
                cached_end   == MaxOf(dates)
                fetch_start  == IF cached_end < Date(required_end)
                                THEN Midnight(cached_end)
                                ELSE required_start
                fetch_end    == IF cached_start > Date(required_start)
                                THEN Midnight(cached_start - 1)
                                ELSE required_end
            IN  IF cached_start <= Date(required_start)
                   /\ cached_end >= Date(required_end)
                THEN None
                ELSE Some([start |-> fetch_start, end |-> fetch_end])

(* ScannerDatabase.get_missing_date_range                                  *)
get_missing_date_range(pd, symbol, required_start, required_end) ==
    LET dates == {r.date : r \in {q \in pd : q.symbol = symbol}}
    IN  IF dates = {} THEN
            Some([start |-> required_start, end |-> required_end])
        ELSE
            LET cached_start == MinOf(dates)
                cached_end   == MaxOf(dates)
                fetch_start  == IF cached_end < Date(required_end)
                                THEN Midnight(cached_end + 1)
                                ELSE required_start
                fetch_end    == IF cached_start > Date(required_start)
                                THEN Midnight(cached_start - 1)
                                ELSE required_end
            IN  IF cached_start <= Date(required_start)
                   /\ cached_end >= Date(required_end)
                THEN None
                ELSE Some([start |-> fetch_start, end |-> fetch_end])

(* CacheManager.should_fetch_data                                          *)
should_fetch_data(pd, meta, symbol, t) ==
    IF ~is_data_fresh(meta, symbol, t) THEN TRUE
    ELSE LET w           == get_required_data_range(t)
             cached_data == get_cached_price_data(pd, symbol, w.start, w.end)
         IN  IF cached_data = None THEN TRUE
             ELSE Len(cached_data[1]) < MinCachedBars

(* CacheManager.get_fetch_strategy                                         *)
get_fetch_strategy(pd, meta, symbol, t) ==
    IF ~should_fetch_data(pd, meta, symbol, t) THEN None
    ELSE LET w == get_required_data_range(t)
         IN  get_missing_date_range(pd, symbol, w.start, w.end)

----------------------------------------------------------------------------
(* The last call and what it returned                                      *)

NoRet ==
    [op |-> "init", symbol |-> "", raised |-> FALSE, start |-> 0, end |-> 0,
     bars |-> <<>>, df |-> None, range |-> None, flag |-> FALSE,
     days |-> 0, count |-> 0, status |-> "", fetch |-> "", fault |-> "",
     degraded |-> FALSE, caught |-> FALSE, out |-> None]

(* no argument drawn for a function of the indicator engine               *)
NoInput == <<>>

(* one bar for every day of a range returned by get_missing_date_range     *)
RangeFrame(range, close) ==
    IF range = None THEN <<>>
    ELSE Frame(Date(range[1].start), Date(range[1].end), close)

GapFrame(symbol, close) ==
    LET w == get_required_data_range(now)
    IN  RangeFrame(get_missing_date_range(price_data, symbol, w.start, w.end), close)

StoreFrames ==
    {Frame(a, b, c) : a \in StoreFirst, b \in StoreLast, c \in Closes}

FetchFrames ==
    {Frame(g[1], g[2], MinOf(Closes)) : g \in FetchRanges}

(* the state after construction, but for the drawn argument               *)
Constructed ==
    /\ now = Now0
    /\ price_data = {}
    /\ cache_metadata = [s \in Symbols |-> None]
    /\ ret = NoRet
    /\ nops = 0
    /\ submitted = [s \in Symbols |-> {}]
    /\ indicators = {}
    /\ scan_results = <<>>
    /\ pc = "idle"
    /\ idx = 0
    /\ tickers = <<>>
    /\ results = <<>>
    /\ returned = {}
    /\ calls = <<>>

Init ==
    /\ Constructed
    /\ input = NoInput

(* the clock advances                                                      *)
Tick ==
    /\ now < Now0 + MaxTicks
    /\ now' = now + 1
    /\ ret' = [NoRet EXCEPT !.op = "tick"]
    /\ UNCHANGED <<price_data, cache_metadata, nops, submitted>>
    /\ UNCHANGED scanvars

SavePriceData(symbol, df, fault) ==
    /\ nops < MaxOps
    /\ LET r == save_price_data(price_data, cache_metadata, symbol, df, now, fault)
       IN  /\ price_data' = r.price_data
           /\ cache_metadata' = r.cache_metadata
           /\ ret' = [NoRet EXCEPT !.op = "save_price_data", !.symbol = symbol,
                                   !.bars = df, !.raised = r.raised]
    /\ nops' = nops + 1
    /\ submitted' = [submitted EXCEPT ![symbol] = @ \cup FrameDates(df)]
    /\ UNCHANGED now
    /\ UNCHANGED scanvars

GetCachedPriceData(symbol, start_date, end_date) ==
    /\ ret' = [NoRet EXCEPT !.op = "get_cached_price_data", !.symbol = symbol,
                            !.start = start_date, !.end = end_date,
                            !.df = get_cached_price_data(price_data, symbol,
                                                         start_date, end_date)]
    /\ UNCHANGED <<now, price_data, cache_metadata, nops, submitted>>
    /\ UNCHANGED scanvars

IsDataFresh(symbol) ==
    /\ ret' = [NoRet EXCEPT !.op = "is_data_fresh", !.symbol = symbol,
                            !.flag = is_data_fresh(cache_metadata, symbol, now)]
    /\ UNCHANGED <<now, price_data, cache_metadata, nops, submitted>>
    /\ UNCHANGED scanvars

GetMissingDateRange(symbol) ==
    /\ LET w == get_required_data_range(now)
       IN  ret' = [NoRet EXCEPT !.op = "get_missing_date_range", !.symbol = symbol,
                                !.start = w.start, !.end = w.end,
                                !.range = get_missing_date_range(price_data, symbol,
                                                                 w.start, w.end)]
    /\ UNCHANGED <<now, price_data, cache_metadata, nops, submitted>>
    /\ UNCHANGED scanvars

ShouldFetchData(symbol) ==
    /\ ret' = [NoRet EXCEPT !.op = "should_fetch_data", !.symbol = symbol,
                            !.flag = should_fetch_data(price_data, cache_metadata,
                                                       symbol, now)]
    /\ UNCHANGED <<now, price_data, cache_metadata, nops, submitted>>
    /\ UNCHANGED scanvars

GetFetchStrategy(symbol) ==
    /\ LET w == get_required_data_range(now)
       IN  ret' = [NoRet EXCEPT !.op = "get_fetch_strategy", !.symbol = symbol,
                                !.start = w.start, !.end = w.end,
                                !.range = get_fetch_strategy(price_data, cache_metadata,
                                                             symbol, now)]
    /\ UNCHANGED <<now, price_data, cache_metadata, nops, submitted>>
    /\ UNCHANGED scanvars

(* The store on its own: bars are saved and read back                     *)
Next ==
    \/ \E s \in Symbols, df \in StoreFrames, f \in BOOLEAN :
         SavePriceData(s, df, f)
    \/ \E s \in Symbols, a \in QueryFirst, b \in QueryLast :
         GetCachedPriceData(s, Midnight(a) + 1, Midnight(b))

Spec == Init /\ [][Next]_vars

(* The coordinator over the store: bars are fetched and saved as the clock *)
(* advances, and the coordinator is asked what to fetch                    *)
CacheNext ==
    \/ Tick
    \/ \E s \in Symbols, f \in BOOLEAN :
         \E df \in FetchFrames \cup {GapFrame(s, MaxOf(Closes))} :
            SavePriceData(s, df, f)
    \/ \E s \in Symbols : IsDataFresh(s)
    \/ \E s \in Symbols : GetMissingDateRange(s)
    \/ \E s \in Symbols : ShouldFetchData(s)
    \/ \E s \in Symbols : GetFetchStrategy(s)

CacheSpec == Init /\ [][CacheNext]_vars

TypeOK ==
    /\ now \in Now0..(Now0 + MaxTicks)
    /\ nops \in 0..MaxOps
    /\ \A r \in price_data : r.symbol \in Symbols
    /\ \A s \in Symbols : Len(cache_metadata[s]) <= 1

----------------------------------------------------------------------------
(* Properties of the store, checked under Spec                             *)

StoredDates(pd, symbol) == {r.date : r \in {q \in pd : q.symbol = symbol}}

Ascending(df) == \A i, j \in 1..Len(df) : i < j => df[i].date < df[j].date

(* C1: save_price_data is idempotent: a second call with the bar set of a  *)
(* call that succeeded also succeeds and leaves price_data as it was.      *)
C1_SaveIdempotent ==
    [][(/\ ret.op = "save_price_data" /\ ~ret.raised /\ ret.bars # <<>>
        /\ ret'.op = "save_price_data"
        /\ ret'.symbol = ret.symbol /\ ret'.bars = ret.bars)
       => (~ret'.raised /\ price_data' = price_data)]_vars

(* C2: after any sequence of save_price_data calls for a symbol, reading   *)
(* a range that covers all submitted dates returns exactly the union of    *)
(* the submitted dates, one bar per date, in ascending order.              *)
C2_ReadBackUnion ==
    \A s \in Symbols :
        submitted[s] # {} =>
            LET r == get_cached_price_data(price_data, s,
                         Midnight(MinOf(submitted[s])), Midnight(MaxOf(submitted[s])))
            IN  /\ r # None
                /\ FrameDates(r[1]) = submitted[s]
                /\ Len(r[1]) = Cardinality(submitted[s])
                /\ Ascending(r[1])

(* C3: after a successful save_price_data the cache_metadata row of the    *)
(* symbol holds the maximum date and the number of all bars now stored for *)
(* the symbol.                                                             *)
C3_MetadataOfMergedSet ==
    (ret.op = "save_price_data" /\ ~ret.raised /\ ret.bars # <<>>) =>
        LET stored == StoredDates(price_data, ret.symbol)
            row    == cache_metadata[ret.symbol]
        IN  /\ row # None
            /\ row[1].last_date = MaxOf(stored)
            /\ row[1].record_count = Cardinality(stored)

(* C9: get_cached_price_data returns exactly the stored bars of the symbol *)
(* dated from the start day to the end day, both included, in ascending    *)
(* date order, and returns the empty result (None), without raising, when  *)
(* no bar lies in the range.                                               *)
C9_RangeRead ==
    ret.op = "get_cached_price_data" =>
        LET want == {[date |-> r.date, close |-> r.close] :
                        r \in {q \in price_data :
                                  /\ q.symbol = ret.symbol
                                  /\ Date(ret.start) <= q.date
                                  /\ q.date <= Date(ret.end)}}
        IN  /\ ~ret.raised
            /\ (want = {}) <=> (ret.df = None)
            /\ ret.df # None =>
                   /\ {ret.df[1][i] : i \in 1..Len(ret.df[1])} = want
                   /\ Len(ret.df[1]) = Cardinality(want)
                   /\ Ascending(ret.df[1])

(* C9 witness: a read that returns bars dated on its first and on its last *)
(* day while the symbol holds a bar outside the range and the other symbol *)
(* holds a bar inside it.                                                  *)
C9_Witness ==
    /\ ret.op = "get_cached_price_data"
    /\ ret.df # None
    /\ Date(ret.start) < Date(ret.end)
    /\ Date(ret.start) \in FrameDates(ret.df[1])
    /\ Date(ret.end) \in FrameDates(ret.df[1])
    /\ \E r \in price_data : r.symbol = ret.symbol /\ r.date < Date(ret.start)
    /\ \E r \in price_data : /\ r.symbol # ret.symbol
                              /\ Date(ret.start) <= r.date
                              /\ r.date <= Date(ret.end)

(* C9 witness of the empty case: a read of a range without bars of the     *)
(* symbol while the store holds bars.                                      *)
C9_WitnessEmpty ==
    /\ ret.op = "get_cached_price_data"
    /\ ret.df = None
    /\ price_data # {}

(* C10: a save_price_data that fails leaves price_data and cache_metadata  *)
(* exactly as they were before the call.                                   *)
C10_FailedSaveChangesNothing ==
    [][(ret'.op = "save_price_data" /\ ret'.raised)
       => (price_data' = price_data /\ cache_metadata' = cache_metadata)]_vars

----------------------------------------------------------------------------
(* Properties of the coordinator, checked under CacheSpec                  *)

(* the ranges of days a result of get_missing_date_range asks for          *)
RangesOf(range) ==
    IF range = None THEN {}
    ELSE {<<Date(range[1].start), Date(range[1].end)>>}

ReqStart == Date(get_required_data_range(now).start)

ReqEnd == Date(get_required_data_range(now).end)

CachedStart(symbol) == MinOf(StoredDates(price_data, symbol))

CachedEnd(symbol) == MaxOf(StoredDates(price_data, symbol))

HasBars(symbol) == StoredDates(price_data, symbol) # {}

BarsInWindow(symbol) ==
    Cardinality({d \in StoredDates(price_data, symbol) : ReqStart <= d /\ d <= ReqEnd})

(* C4: with both edges missing (cachedStart > reqStart and cachedEnd <     *)
(* reqEnd) the gap computation yields the two ranges [reqStart,            *)
(* cachedStart-1] and [cachedEnd+1, reqEnd]; no returned range has its     *)
(* start after its end.                                                    *)
C4_TwoGapRanges ==
    ret.op = "get_missing_date_range" =>
        /\ \A g \in RangesOf(ret.range) : g[1] <= g[2]
        /\ (/\ HasBars(ret.symbol)
            /\ CachedStart(ret.symbol) > ReqStart
            /\ CachedEnd(ret.symbol) < ReqEnd)
           => RangesOf(ret.range) = {<<ReqStart, CachedStart(ret.symbol) - 1>>,
                                     <<CachedEnd(ret.symbol) + 1, ReqEnd>>}

(* C5: when get_missing_date_range returns a range and a bar for every day *)
(* of it is saved with save_price_data, get_missing_date_range for the     *)
(* same window then returns None.                                          *)
C5_GapClosure ==
    [][(ret'.op = "save_price_data" /\ ~ret'.raised) =>
          LET w == get_required_data_range(now)
              g == get_missing_date_range(price_data, ret'.symbol, w.start, w.end)
          IN  (g # None /\ FrameDates(ret'.bars) = FrameDates(RangeFrame(g, 1)))
              => get_missing_date_range(price_data', ret'.symbol, w.start, w.end) = None
      ]_vars

(* C6: get_missing_date_range returns None when the cached days cover the  *)
(* window, [cachedEnd+1, reqEnd] when only the trailing edge is missing,   *)
(* [reqStart, cachedStart-1] when only the leading edge is missing, and    *)
(* the whole window when the symbol has no stored bars.                    *)
C6_OneEdgeGap ==
    ret.op = "get_missing_date_range" =>
        IF ~HasBars(ret.symbol) THEN
            RangesOf(ret.range) = {<<ReqStart, ReqEnd>>}
        ELSE
            LET cs == CachedStart(ret.symbol)
                ce == CachedEnd(ret.symbol)
            IN  /\ (cs <= ReqStart /\ ce >= ReqEnd) => ret.range = None
                /\ (cs <= ReqStart /\ ce < ReqEnd)
                       => RangesOf(ret.range) = {<<ce + 1, ReqEnd>>}
                /\ (cs > ReqStart /\ ce >= ReqEnd)
                       => RangesOf(ret.range) = {<<ReqStart, cs - 1>>}

(* C6 witness: the trailing edge alone is missing and the call asks for    *)
(* the days after the last cached day.                                     *)
C6_Witness ==
    /\ ret.op = "get_missing_date_range"
    /\ HasBars(ret.symbol)
    /\ CachedStart(ret.symbol) <= ReqStart
    /\ CachedEnd(ret.symbol) < ReqEnd
    /\ ret.range # None
    /\ Date(ret.range[1].start) = CachedEnd(ret.symbol) + 1

(* C7: for a symbol that is not fresh, get_fetch_strategy asks for a fetch *)
(* of the whole required window.                                           *)
C7_StaleFetchesWindow ==
    (ret.op = "get_fetch_strategy"
     /\ ~is_data_fresh(cache_metadata, ret.symbol, now))
    => RangesOf(ret.range) = {<<ReqStart, ReqEnd>>}

(* C8: for a fresh symbol, should_fetch_data is true exactly when fewer    *)
(* than max(RSI_WINDOW, ATR_WINDOW) + 1 bars are stored in the window.     *)
C8_SufficiencyThreshold ==
    (ret.op = "should_fetch_data"
     /\ is_data_fresh(cache_metadata, ret.symbol, now))
    => (ret.flag <=> BarsInWindow(ret.symbol) < Max(RSI_WINDOW, ATR_WINDOW) + 1)

----------------------------------------------------------------------------
(* The other tables of the store and the pruning of old rows               *)

KeepDays == {27, 28}

(* an indicator series of n samples: NaN for the first k, then v           *)
IndicatorSeries(n, k, v) == [i \in 1..n |-> IF i <= k THEN None ELSE Some(v)]

(* first and last day of the bar sets saved before a prune                 *)
PruneRanges == {<<1, 2>>, <<2, 3>>, <<3, 3>>}

PruneFrames ==
    {Frame(g[1], g[2], MinOf(Closes)) : g \in PruneRanges}

MaxScanRows == 1

(* ScannerDatabase.save_indicators: dropna, then INSERT OR REPLACE by row  *)
save_indicators(ind, symbol, df, rsi_series, atr_series) ==
    IF df = <<>> \/ rsi_series = <<>> \/ atr_series = <<>> THEN ind
    ELSE LET at   == {i \in (DOMAIN df) \cap (DOMAIN rsi_series)
                                        \cap (DOMAIN atr_series) :
                         rsi_series[i] # None /\ atr_series[i] # None}
             rows == {[symbol |-> symbol, date |-> df[i].date,
                       rsi_14 |-> rsi_series[i][1],
                       atr_14 |-> atr_series[i][1]] : i \in at}
         IN  {r \in ind : ~\E n \in rows : n.symbol = r.symbol /\ n.date = r.date}
                 \cup rows

(* ScannerDatabase.save_scan_result: a plain INSERT                        *)
save_scan_result(sr, scan_date, symbol, status) ==
    Append(sr, [scan_date |-> Date(scan_date), symbol |-> symbol,
                status |-> status])

(* clean_old_cache deleting the rows of the cutoff day as well             *)
clean_old_cache_through_cutoff(pd, ind, meta, t, days_to_keep) ==
    LET cutoff_date == t - days_to_keep * TicksPerDay
        pd2  == {r \in pd : ~(r.date <= Date(cutoff_date))}
        ind2 == {r \in ind : ~(r.date <= Date(cutoff_date))}
        gone == {s \in Symbols : meta[s] # None /\ ~\E r \in pd2 : r.symbol = s}
    IN  [price_data |-> pd2, indicators |-> ind2,
         cache_metadata |-> [s \in Symbols |-> IF s \in gone THEN None ELSE meta[s]],
         rowcount |-> Cardinality(gone)]

(* CacheManager.clean_old_cache: the three DELETE statements of one        *)
(* transaction; the value returned is cursor.rowcount, which sqlite3 sets  *)
(* to the rows of the last statement executed                              *)
clean_old_cache(pd, ind, meta, t, days_to_keep) ==
    LET cutoff_date == t - days_to_keep * TicksPerDay
        pd2  == {r \in pd : ~(r.date < Date(cutoff_date))}
        ind2 == {r \in ind : ~(r.date < Date(cutoff_date))}
        gone == {s \in Symbols : meta[s] # None /\ ~\E r \in pd2 : r.symbol = s}
    IN  [price_data |-> pd2, indicators |-> ind2,
         cache_metadata |-> [s \in Symbols |-> IF s \in gone THEN None ELSE meta[s]],
         rowcount |-> Cardinality(gone)]

SaveIndicators(symbol, df, k) ==
    /\ indicators' = save_indicators(indicators, symbol, df,
                                     IndicatorSeries(Len(df), k, 50),
                                     IndicatorSeries(Len(df), 0, 1))
    /\ ret' = [NoRet EXCEPT !.op = "save_indicators", !.symbol = symbol]
    /\ UNCHANGED <<now, price_data, cache_metadata, nops, submitted>>
    /\ UNCHANGED <<scan_results, pc, idx, tickers, results, returned, calls, input>>

SaveScanResult(symbol, status) ==
    /\ Len(scan_results) < MaxScanRows
    /\ scan_results' = save_scan_result(scan_results, now, symbol, status)
    /\ ret' = [NoRet EXCEPT !.op = "save_scan_result", !.symbol = symbol,
                            !.status = status]
    /\ UNCHANGED <<now, price_data, cache_metadata, nops, submitted>>
    /\ UNCHANGED <<indicators, pc, idx, tickers, results, returned, calls, input>>

CleanOldCache(days_to_keep) ==
    /\ LET r == clean_old_cache(price_data, indicators, cache_metadata, now,
                                days_to_keep)
       IN  /\ price_data' = r.price_data
           /\ indicators' = r.indicators
           /\ cache_metadata' = r.cache_metadata
           /\ ret' = [NoRet EXCEPT !.op = "clean_old_cache",
                                   !.days = days_to_keep, !.count = r.rowcount]
    /\ UNCHANGED <<now, nops, submitted>>
    /\ UNCHANGED <<scan_results, pc, idx, tickers, results, returned, calls, input>>

(* The store is filled and pruned                                          *)
PruneNext ==
    \/ \E s \in Symbols, df \in PruneFrames, f \in BOOLEAN :
         SavePriceData(s, df, f)
    \/ \E s \in Symbols, k \in {0, 1} :
         SaveIndicators(s, Frame(MinOf(StoreLast), MaxOf(StoreLast), MinOf(Closes)), k)
    \/ \E s \in Symbols : SaveScanResult(s, "no_hit")
    \/ \E k \in KeepDays : CleanOldCache(k)

PruneSpec == Init /\ [][PruneNext]_vars

----------------------------------------------------------------------------
(* Properties of the pruning, checked under PruneSpec                      *)

(* the cutoff day of the last clean_old_cache call                         *)
CutoffDay(r) == Date(now - r.days * TicksPerDay)

(* C13: clean_old_cache with cutoff c deletes exactly the price_data rows  *)
(* and the indicators rows dated strictly before c, deletes the            *)
(* cache_metadata row of exactly the instruments left without bars, and    *)
(* leaves scan_results as it was.                                          *)
C13_PruneByCutoff ==
    [][ret'.op = "clean_old_cache" =>
          LET c == CutoffDay(ret')
          IN  /\ price_data' = {r \in price_data : r.date >= c}
              /\ indicators' = {r \in indicators : r.date >= c}
              /\ \A s \in Symbols :
                    cache_metadata'[s] =
                        IF \E r \in price_data' : r.symbol = s
                        THEN cache_metadata[s] ELSE None
              /\ scan_results' = scan_results]_vars

(* a prune that removed the bars, the indicators and the freshness record  *)
(* of one instrument, kept bars and indicators of the cutoff day or later, *)
(* and found scan results in the store                                     *)
C13_Witness ==
    /\ ret.op = "clean_old_cache"
    /\ \E s \in Symbols :
          /\ submitted[s] # {}
          /\ \A d \in submitted[s] : d < CutoffDay(ret)
          /\ StoredDates(price_data, s) = {}
          /\ cache_metadata[s] = None
    /\ \E r \in price_data : r.date = CutoffDay(ret)
    /\ \E r \in price_data : cache_metadata[r.symbol] # None
    /\ \E r \in indicators : r.date = CutoffDay(ret)
    /\ scan_results # <<>>

(* C14: the value returned by clean_old_cache is the number of rows it     *)
(* removed: bars plus indicators plus freshness records.                   *)
C14_ReturnsRowsRemoved ==
    [][ret'.op = "clean_old_cache" =>
          ret'.count =
              (Cardinality(price_data) - Cardinality(price_data'))
              + (Cardinality(indicators) - Cardinality(indicators'))
              + (Cardinality({s \in Symbols : cache_metadata[s] # None})
                 - Cardinality({s \in Symbols : cache_metadata'[s] # None}))]_vars

(* C30: in every state reached by save_price_data and clean_old_cache      *)
(* calls an instrument has a cache_metadata row if and only if it has at   *)
(* least one stored price bar, and it never has more than one such row.    *)
C30_MetadataIffBars ==
    \A s \in Symbols :
        /\ Len(cache_metadata[s]) <= 1
        /\ cache_metadata[s] # None <=> HasBars(s)

----------------------------------------------------------------------------
(* The indicator engine: src/src/indicators.py.  A series is a sequence of *)
(* samples, a sample an optional number (None is NaN); prices and          *)
(* indicator values are integers.  A bar is [low, high, close].  A float   *)
(* argument that may be None or NaN is a record [kind, val].  A quotient   *)
(* is a pair <<numerator, denominator>>.                                   *)

RSI_HIGH_THRESHOLD == 90

RSI_LOW_THRESHOLD == 10

OVEREXTENDED_ATR_MULTIPLIER == 5

MaxSeriesLen == 3

MaxBars == 3

Lookbacks == {1, 2}

RsiSamples == {None, Some(RSI_LOW_THRESHOLD), Some(50), Some(RSI_HIGH_THRESHOLD)}

Prices == {1, 2, 3}

Bars ==
    {b \in [low : Prices, high : Prices, close : Prices] :
        b.low <= b.close /\ b.close <= b.high}

Number(v) == [kind |-> "number", val |-> v]

(* the volatility arguments: None, NaN and floats of either sign (the      *)
(* function takes any float)                                               *)
AtrValues == {[kind |-> "none", val |-> 0], [kind |-> "nan", val |-> 0],
              Number(-1), Number(0), Number(1)}

Multipliers == {1, OVEREXTENDED_ATR_MULTIPLIER}

SeqsUpTo(S, n) == UNION {[1..k -> S] : k \in 0..n}

(* Series.dropna()                                                         *)
DropNa(series) == SelectSeq(series, LAMBDA x : x # None)

(* .iloc[-n:]                                                              *)
LastN(seq, n) ==
    IF Len(seq) <= n THEN seq ELSE SubSeq(seq, Len(seq) - n + 1, Len(seq))

(* .iloc[:-1] leaving the last row in                                      *)
AllWithLast(seq) == seq

(* .iloc[:-1]                                                              *)
AllButLast(seq) == SubSeq(seq, 1, Len(seq) - 1)

(* check_rsi_extremes                                                      *)
check_rsi_extremes(rsi_series, lookback_days, high_threshold, low_threshold) ==
    LET no_extreme == [hit_high |-> FALSE, hit_low |-> FALSE,
                       max_rsi |-> None, min_rsi |-> None]
    IN  IF rsi_series = <<>> \/ Len(rsi_series) < lookback_days THEN no_extreme
        ELSE LET recent_rsi == LastN(DropNa(rsi_series), lookback_days)
             IN  IF recent_rsi = <<>> THEN no_extreme
                 ELSE LET vals    == {recent_rsi[i][1] : i \in DOMAIN recent_rsi}
                          max_rsi == MaxOf(vals)
                          min_rsi == MinOf(vals)
                      IN  [hit_high |-> max_rsi >= high_threshold,
                           hit_low  |-> min_rsi <= low_threshold,
                           max_rsi  |-> Some(max_rsi),
                           min_rsi  |-> Some(min_rsi)]

(* check_overextended, lines 42-56: the result before anything is measured *)
EmptyMeasurement(atr_value) ==
    [is_overextended |-> FALSE, swing_low |-> None, swing_high |-> None,
     atr |-> atr_value, atr_contribution |-> None, threshold |-> None,
     current_price |-> None, distance_from_threshold |-> None,
     distance_pct |-> None, proximity_pct |-> None, price_range |-> None,
     calculation_valid |-> FALSE]

(* atr_value is None or pd.isna(atr_value), taking NaN for a number        *)
UndefinedAtrOnlyNone(atr_value) == atr_value.kind = "none"

(* atr_value is None or pd.isna(atr_value)                                 *)
UndefinedAtr(atr_value) == atr_value.kind \in {"none", "nan"}

(* num / den * 100 left as it comes                                        *)
Unclamped(num, den) == <<num * 100, den>>

(* max(0, min(100, num / den * 100)) for den > 0                           *)
ClampPercent(num, den) ==
    IF num <= 0 THEN <<0, 1>>
    ELSE IF num >= den THEN <<100, 1>>
    ELSE <<num * 100, den>>

(* current_price >= overextended_threshold                                 *)
IsOverextendedAtThreshold(current_price, overextended_threshold) ==
    current_price >= overextended_threshold

(* check_overextended, line 101                                            *)
IsOverextended(current_price, overextended_threshold) ==
    current_price > overextended_threshold

(* check_overextended, lines 60-114: the measurement over enough bars.     *)
(* The operands are numpy floats: a division by zero yields inf or NaN     *)
(* and raises nothing, so a quotient keeps its zero denominator.           *)
Measure(df, atr_value, lookback_days, atr_multiplier) ==
    LET recent_data    == LastN(df, lookback_days + 1)
        prev_days_data == AllButLast(recent_data)
        swing_low      == MinOf({prev_days_data[i].low : i \in DOMAIN prev_days_data})
        swing_high     == MaxOf({prev_days_data[i].high : i \in DOMAIN prev_days_data})
        current_price  == df[Len(df)].close
        basic == [EmptyMeasurement(atr_value) EXCEPT
                      !.swing_low = Some(swing_low),
                      !.swing_high = Some(swing_high),
                      !.current_price = Some(current_price),
                      !.price_range = Some(swing_high - swing_low)]
    IN  IF UndefinedAtr(atr_value) THEN basic
        ELSE LET atr_contribution        == atr_value.val * atr_multiplier
                 overextended_threshold  == swing_low + atr_contribution
                 distance_from_threshold == current_price - overextended_threshold
                 distance_pct == <<distance_from_threshold * 100,
                                   overextended_threshold>>
                 proximity_pct ==
                     IF overextended_threshold > swing_low
                     THEN ClampPercent(current_price - swing_low,
                                       overextended_threshold - swing_low)
                     ELSE <<0, 1>>
             IN  [basic EXCEPT
                      !.is_overextended =
                          IsOverextended(current_price, overextended_threshold),
                      !.atr_contribution = Some(atr_contribution),
                      !.threshold = Some(overextended_threshold),
                      !.distance_from_threshold = Some(distance_from_threshold),
                      !.distance_pct = Some(distance_pct),
                      !.proximity_pct = Some(proximity_pct),
                      !.calculation_valid = TRUE]

(* check_overextended reading the current price before it counts the bars  *)
check_overextended_price_before_guard(df, atr_value, lookback_days, atr_multiplier) ==
    IF df = <<>> THEN EmptyMeasurement(atr_value)
    ELSE IF Len(df) < lookback_days + 1
    THEN [EmptyMeasurement(atr_value) EXCEPT
              !.current_price = Some(df[Len(df)].close)]
    ELSE Measure(df, atr_value, lookback_days, atr_multiplier)

(* check_overextended                                                      *)
check_overextended(df, atr_value, lookback_days, atr_multiplier) ==
    IF df = <<>> \/ Len(df) < lookback_days + 1
    THEN EmptyMeasurement(atr_value)
    ELSE Measure(df, atr_value, lookback_days, atr_multiplier)

ExtremeInputs ==
    [rsi_series : SeqsUpTo(RsiSamples, MaxSeriesLen), lookback_days : Lookbacks]

OverextendedInputs ==
    [df : SeqsUpTo(Bars, MaxBars), atr_value : AtrValues,
     lookback_days : Lookbacks, atr_multiplier : Multipliers]

CheckRsiExtremes ==
    /\ ret' = [NoRet EXCEPT
                 !.op = "check_rsi_extremes",
                 !.out = Some(check_rsi_extremes(input.rsi_series,
                                                 input.lookback_days,
                                                 RSI_HIGH_THRESHOLD,
                                                 RSI_LOW_THRESHOLD))]
    /\ UNCHANGED <<now, price_data, cache_metadata, nops, submitted>>
    /\ UNCHANGED scanvars

CheckOverextended ==
    /\ ret' = [NoRet EXCEPT
                 !.op = "check_overextended",
                 !.out = Some(check_overextended(input.df, input.atr_value,
                                                 input.lookback_days,
                                                 input.atr_multiplier))]
    /\ UNCHANGED <<now, price_data, cache_metadata, nops, submitted>>
    /\ UNCHANGED scanvars

(* check_rsi_extremes over every drawn series and lookback                 *)
ExtremeInit ==
    /\ Constructed
    /\ input \in ExtremeInputs

ExtremeNext == CheckRsiExtremes

ExtremeSpec == ExtremeInit /\ [][ExtremeNext]_vars

(* check_overextended over every drawn series, volatility and lookback     *)
OverextendedInit ==
    /\ Constructed
    /\ input \in OverextendedInputs

OverextendedNext == CheckOverextended

OverextendedSpec == OverextendedInit /\ [][OverextendedNext]_vars

----------------------------------------------------------------------------
(* The oscillator of compute_indicators.  The ta library is no file of the *)
(* repository: the oscillator is modelled from spec.md, "computed over a   *)
(* trailing window of size W using smoothed average gains/losses           *)
(* (Wilder-style exponential smoothing).  Requires at least W+1 bars;      *)
(* otherwise returns undefined for all positions in the insufficient       *)
(* prefix".  Averages are fixed-point numbers of Scale units, rounded down *)
(* as finite-precision arithmetic rounds.                                  *)

MaxHistory == 15

(* the volatility the library computes: one value on every day            *)
ScanAtr == 1

Scale == 1000

(* the closes of the drawn series: flat, rising and falling days           *)
HistoryCloses == {1, 2}

Gain(d) == IF d > 0 THEN d ELSE 0

(* the loss of a day kept with its sign                                    *)
SignedLoss(d) == IF d < 0 THEN d ELSE 0

Loss(d) == IF d < 0 THEN -d ELSE 0

(* the change of the close from the day before; none on the first day      *)
Change(close, i) == IF i = 1 THEN 0 ELSE close[i] - close[i - 1]

RECURSIVE Smoothed(_, _, _, _)
(* the smoothed averages of xs from position i on, prev the average before *)
Smoothed(xs, i, prev, window) ==
    IF i > Len(xs) THEN <<>>
    ELSE <<((window - 1) * prev + xs[i] * Scale) \div window>>
         \o Smoothed(xs, i + 1, ((window - 1) * prev + xs[i] * Scale) \div window,
                     window)

(* 100 - 100 / (1 + gain / loss) as a quotient; 100 without losses         *)
RelativeStrengthIndex(avg_gain, avg_loss) ==
    IF avg_loss = 0 THEN <<100, 1>>
    ELSE <<100 * avg_gain, avg_gain + avg_loss>>

(* the oscillator series over the closes                                   *)
Rsi(close, window) ==
    LET gains  == Smoothed([i \in 1..Len(close) |-> Gain(Change(close, i))],
                           1, 0, window)
        losses == Smoothed([i \in 1..Len(close) |-> Loss(Change(close, i))],
                           1, 0, window)
    IN  [i \in 1..Len(close) |->
            IF i <= window THEN None
            ELSE Some(RelativeStrengthIndex(gains[i], losses[i]))]

(* compute_indicators over the series the library computes                 *)
compute_indicators_of(df, rsi_series, atr_series) ==
    IF df = <<>> \/ Len(df) < Max(RSI_WINDOW, ATR_WINDOW) + 1 THEN
        [rsi_series |-> None, atr_series |-> None,
         latest_rsi |-> None, latest_atr |-> None]
    ELSE
        [rsi_series |-> Some(rsi_series), atr_series |-> Some(atr_series),
         latest_rsi |-> Some(rsi_series[Len(rsi_series)]),
         latest_atr |-> Some(atr_series[Len(atr_series)])]

HistoryLens == {0} \cup (Max(RSI_WINDOW, ATR_WINDOW)..MaxHistory)

IndicatorInputs == [close : UNION {[1..n -> HistoryCloses] : n \in HistoryLens}]

ComputeIndicators ==
    /\ ret' = [NoRet EXCEPT
                 !.op = "compute_indicators",
                 !.out = Some(compute_indicators_of(
                                  input.close,
                                  Rsi(input.close, RSI_WINDOW),
                                  IndicatorSeries(Len(input.close), 0, ScanAtr)))]
    /\ UNCHANGED <<now, price_data, cache_metadata, nops, submitted>>
    /\ UNCHANGED scanvars

(* compute_indicators over every drawn series of closes                    *)
IndicatorInit ==
    /\ Constructed
    /\ input \in IndicatorInputs

IndicatorNext == ComputeIndicators

IndicatorSpec == IndicatorInit /\ [][IndicatorNext]_vars

----------------------------------------------------------------------------
(* Properties of the indicator engine                                      *)

(* the valid samples of the drawn oscillator series                        *)
ValidSamples == DropNa(input.rsi_series)

LastValid ==
    LET recent == LastN(ValidSamples, input.lookback_days)
    IN  {recent[i][1] : i \in DOMAIN recent}

(* C18: with fewer than N valid (non-NaN) samples, N the lookback,         *)
(* check_rsi_extremes reports no extreme in either direction whatever the  *)
(* valid samples are; with at least N valid samples hit_high holds iff the *)
(* maximum of the last N valid samples is >= the high threshold and        *)
(* hit_low iff their minimum is <= the low threshold.  Checked under       *)
(* ExtremeSpec.                                                            *)
C18_NoExtremeFromShortWindow ==
    ret.op = "check_rsi_extremes" =>
        IF Len(ValidSamples) < input.lookback_days
        THEN ~ret.out[1].hit_high /\ ~ret.out[1].hit_low
        ELSE /\ ret.out[1].hit_high <=> MaxOf(LastValid) >= RSI_HIGH_THRESHOLD
             /\ ret.out[1].hit_low <=> MinOf(LastValid) <= RSI_LOW_THRESHOLD

(* the measurement fields that check_overextended computes from the bars   *)
(* and the volatility                                                      *)
ComputedFields ==
    {"swing_low", "swing_high", "atr_contribution", "threshold", "current_price",
     "distance_from_threshold", "distance_pct", "proximity_pct", "price_range"}

(* C19 as stated: with fewer than L+1 bars check_overextended returns      *)
(* calculation_valid = false, is_overextended = false and every numeric    *)
(* field of the measurement null, the atr field among them.  Checked under *)
(* OverextendedSpec.                                                       *)
C19_ShortSeriesAllNull ==
    (ret.op = "check_overextended" /\ Len(input.df) < input.lookback_days + 1)
    => /\ ~ret.out[1].calculation_valid
       /\ ~ret.out[1].is_overextended
       /\ \A f \in ComputedFields : ret.out[1][f] = None
       /\ ret.out[1].atr.kind = "none"

(* C19 amended: with fewer than L+1 bars check_overextended returns        *)
(* calculation_valid = false, is_overextended = false and every computed   *)
(* numeric field null; the atr field is the volatility argument handed     *)
(* back as it came.                                                        *)
C19_ShortSeriesComputedNull ==
    (ret.op = "check_overextended" /\ Len(input.df) < input.lookback_days + 1)
    => /\ ~ret.out[1].calculation_valid
       /\ ~ret.out[1].is_overextended
       /\ \A f \in ComputedFields : ret.out[1][f] = None
       /\ ret.out[1].atr = input.atr_value

(* a short, non-empty series measured with a defined volatility            *)
C19_Witness ==
    /\ ret.op = "check_overextended"
    /\ input.df # <<>>
    /\ Len(input.df) = input.lookback_days
    /\ input.atr_value = Number(1)
    /\ ~ret.out[1].calculation_valid

(* C20: with at least L+1 bars and the volatility missing or NaN,          *)
(* check_overextended returns calculation_valid = false and                *)
(* is_overextended = false, with threshold, distance, distance percentage  *)
(* and proximity null.  Checked under OverextendedSpec.                    *)
C20_UndefinedVolatility ==
    (/\ ret.op = "check_overextended"
     /\ Len(input.df) >= input.lookback_days + 1
     /\ input.atr_value.kind \in {"none", "nan"})
    => /\ ~ret.out[1].calculation_valid
       /\ ~ret.out[1].is_overextended
       /\ ret.out[1].threshold = None
       /\ ret.out[1].distance_from_threshold = None
       /\ ret.out[1].distance_pct = None
       /\ ret.out[1].proximity_pct = None

(* enough bars measured with a NaN volatility: the swing low and the       *)
(* current price are there, the threshold is not                           *)
C20_Witness ==
    /\ ret.op = "check_overextended"
    /\ Len(input.df) >= input.lookback_days + 1
    /\ input.atr_value.kind = "nan"
    /\ ret.out[1].swing_low # None
    /\ ret.out[1].current_price # None
    /\ ret.out[1].threshold = None

(* the defined samples of the oscillator series returned                   *)
DefinedRsi ==
    {ret.out[1].rsi_series[1][i][1] :
        i \in {j \in DOMAIN ret.out[1].rsi_series[1] :
                  ret.out[1].rsi_series[1][j] # None}}

(* C24: for a series of at least RSI_WINDOW + 1 bars every defined         *)
(* oscillator value produced by compute_indicators lies within [0, 100],   *)
(* and with fewer than max(RSI_WINDOW, ATR_WINDOW) + 1 bars                *)
(* compute_indicators returns no oscillator and no volatility value at     *)
(* all.  Checked under IndicatorSpec.                                      *)
C24_OscillatorRange ==
    ret.op = "compute_indicators"
    => /\ Len(input.close) >= RSI_WINDOW + 1
          => /\ ret.out[1].rsi_series # None
             /\ DefinedRsi # {}
             /\ \A q \in DefinedRsi : q[2] > 0 /\ 0 <= q[1] /\ q[1] <= 100 * q[2]
       /\ Len(input.close) < Max(RSI_WINDOW, ATR_WINDOW) + 1
          => /\ ret.out[1].rsi_series = None
             /\ ret.out[1].atr_series = None
             /\ ret.out[1].latest_rsi = None
             /\ ret.out[1].latest_atr = None

(* a series of RSI_WINDOW + 1 bars with gains and losses: the oscillator   *)
(* is defined on the last day, strictly between 0 and 100                  *)
C24_Witness ==
    /\ ret.op = "compute_indicators"
    /\ Len(input.close) = RSI_WINDOW + 1
    /\ DefinedRsi # {}
    /\ ret.out[1].latest_rsi[1] # None
    /\ ret.out[1].latest_rsi[1][1][1] > 0
    /\ ret.out[1].latest_rsi[1][1][1] < 100 * ret.out[1].latest_rsi[1][1][2]

(* a series one bar short of the minimum: nothing is computed              *)
C24_WitnessShort ==
    /\ ret.op = "compute_indicators"
    /\ Len(input.close) = Max(RSI_WINDOW, ATR_WINDOW)
    /\ ret.out[1].rsi_series = None
    /\ ret.out[1].latest_atr = None

(* the L bars that precede the most recent bar of the drawn series         *)
PrecedingBars ==
    {input.df[i] : i \in (Len(input.df) - input.lookback_days)..(Len(input.df) - 1)}

SwingLow == MinOf({b.low : b \in PrecedingBars})

SwingHigh == MaxOf({b.high : b \in PrecedingBars})

CurrentPrice == input.df[Len(input.df)].close

Threshold == SwingLow + input.atr_value.val * input.atr_multiplier

(* the last call was a check_overextended over at least L+1 bars           *)
EnoughBars ==
    /\ ret.op = "check_overextended"
    /\ Len(input.df) >= input.lookback_days + 1

ValidMeasurement == EnoughBars /\ ret.out[1].calculation_valid

(* C21: for every valid measurement threshold = swing_low + volatility *   *)
(* multiplier, distance_from_threshold = current_price - threshold, and    *)
(* is_overextended holds iff current_price > threshold strictly: a price   *)
(* equal to the threshold is not overextended.  Checked under              *)
(* OverextendedSpec.                                                       *)
C21_StrictThreshold ==
    ValidMeasurement
    => /\ ret.out[1].atr_contribution =
              Some(input.atr_value.val * input.atr_multiplier)
       /\ ret.out[1].threshold = Some(Threshold)
       /\ ret.out[1].distance_from_threshold = Some(CurrentPrice - Threshold)
       /\ ret.out[1].is_overextended <=> CurrentPrice > Threshold
       /\ CurrentPrice = Threshold => ~ret.out[1].is_overextended

(* a valid measurement whose current price is exactly the threshold, above *)
(* the swing low                                                           *)
C21_Witness ==
    /\ ValidMeasurement
    /\ Threshold > SwingLow
    /\ CurrentPrice = Threshold
    /\ ret.out[1].distance_from_threshold = Some(0)
    /\ ~ret.out[1].is_overextended

(* C22: whenever the computed threshold swing_low + volatility *           *)
(* multiplier is zero or negative, check_overextended returns without      *)
(* error with distance_pct null and is_overextended false, also when the   *)
(* current price is above the threshold.  Checked under OverextendedSpec.  *)
C22_ThresholdGuard ==
    (/\ EnoughBars
     /\ input.atr_value.kind = "number"
     /\ Threshold <= 0)
    => /\ ret.out # None
       /\ ret.out[1].distance_pct = None
       /\ ~ret.out[1].is_overextended

(* the value of a quotient lies in [0, 100]                                *)
InPercentRange(q) == q[2] > 0 /\ 0 <= q[1] /\ q[1] <= 100 * q[2]

(* the quotient q is num / den * 100                                       *)
IsPercentOf(q, num, den) == q[2] > 0 /\ q[1] * den = num * 100 * q[2]

(* C23: for every valid measurement proximity_pct lies in [0, 100]: it is  *)
(* 0 when current_price <= swing_low or threshold <= swing_low, 100 when   *)
(* current_price >= threshold > swing_low, and (current_price - swing_low) *)
(* / (threshold - swing_low) * 100 in between.  Checked under              *)
(* OverextendedSpec.                                                       *)
C23_ProximityClamped ==
    ValidMeasurement
    => /\ ret.out[1].proximity_pct # None
       /\ InPercentRange(ret.out[1].proximity_pct[1])
       /\ IF CurrentPrice <= SwingLow \/ Threshold <= SwingLow
          THEN ret.out[1].proximity_pct[1][1] = 0
          ELSE IF CurrentPrice >= Threshold
          THEN IsPercentOf(ret.out[1].proximity_pct[1], 1, 1)
          ELSE IsPercentOf(ret.out[1].proximity_pct[1],
                           CurrentPrice - SwingLow, Threshold - SwingLow)

(* a valid measurement whose current price lies above a threshold that     *)
(* lies above the swing low: the proximity is held at 100                  *)
C23_Witness ==
    /\ ValidMeasurement
    /\ SwingLow < Threshold
    /\ Threshold < CurrentPrice
    /\ ret.out[1].proximity_pct = Some(<<100, 1>>)

(* a valid measurement whose current price lies strictly between the swing *)
(* low and the threshold                                                   *)
C23_WitnessBetween ==
    /\ ValidMeasurement
    /\ SwingLow < CurrentPrice
    /\ CurrentPrice < Threshold
    /\ ret.out[1].proximity_pct # Some(<<100, 1>>)
    /\ ret.out[1].proximity_pct # Some(<<0, 1>>)

(* C27: swing_low is the minimum low and swing_high the maximum high over  *)
(* exactly the L bars that precede the most recent bar: neither the most   *)
(* recent bar nor a bar older than L+1 positions from the end influences   *)
(* them; current_price is the most recent close and price_range is         *)
(* swing_high - swing_low.  Checked under OverextendedSpec.                *)
C27_SwingWindow ==
    EnoughBars
    => /\ ret.out[1].swing_low = Some(SwingLow)
       /\ ret.out[1].swing_high = Some(SwingHigh)
       /\ ret.out[1].current_price = Some(CurrentPrice)
       /\ ret.out[1].price_range = Some(SwingHigh - SwingLow)

(* a series longer than L+1 bars whose oldest bar and whose most recent    *)
(* bar both reach below the swing low and above the swing high             *)
C27_Witness ==
    /\ EnoughBars
    /\ Len(input.df) > input.lookback_days + 1
    /\ input.df[1].low < SwingLow
    /\ input.df[1].high > SwingHigh
    /\ input.df[Len(input.df)].low < SwingLow
    /\ input.df[Len(input.df)].high > SwingHigh
    /\ ret.out[1].swing_low = Some(SwingLow)
    /\ ret.out[1].swing_high = Some(SwingHigh)

----------------------------------------------------------------------------
(* The merge step of the coordinator                                       *)

(* first and last day of the merged payloads: two runs inside the required *)
(* window, one run that ends before the window starts, and no bar          *)
MergeRanges == {<<10, 12>>, <<13, 15>>, <<-3, -1>>, <<16, 15>>}

MergeFrames == {Frame(g[1], g[2], MinOf(Closes)) : g \in MergeRanges}

(* save_price_data where merge_new_data calls it: not for an empty frame  *)
SaveIfAny(pd, meta, symbol, new_data, t, fault) ==
    IF new_data # <<>>
    THEN save_price_data(pd, meta, symbol, new_data, t, fault)
    ELSE [price_data |-> pd, cache_metadata |-> meta, raised |-> FALSE]

(* merge_new_data after the save, handing back what was fetched            *)
MergeReturningPayload(saved, symbol, new_data, t) ==
    [price_data |-> saved.price_data, cache_metadata |-> saved.cache_metadata,
     raised |-> saved.raised,
     out |-> IF saved.raised THEN None ELSE Some(new_data)]

(* merge_new_data after the save, lines 66-70: the window is read again;   *)
(* an exception of save_price_data leaves the function                     *)
MergeAfterSave(saved, symbol, new_data, t) ==
    [price_data |-> saved.price_data, cache_metadata |-> saved.cache_metadata,
     raised |-> saved.raised,
     out |-> IF saved.raised THEN None
             ELSE LET w == get_required_data_range(t)
                      complete_data ==
                          get_cached_price_data(saved.price_data, symbol,
                                                w.start, w.end)
                  IN  IF complete_data # None THEN complete_data
                      ELSE Some(new_data)]

(* CacheManager.merge_new_data: the tables after the call and the frame    *)
(* returned                                                                *)
merge_new_data(pd, meta, symbol, new_data, t, fault) ==
    MergeAfterSave(SaveIfAny(pd, meta, symbol, new_data, t, fault),
                   symbol, new_data, t)

MergeNewData(symbol, new_data, fault) ==
    /\ nops < MaxOps
    /\ LET r == merge_new_data(price_data, cache_metadata, symbol, new_data,
                               now, fault)
       IN  /\ price_data' = r.price_data
           /\ cache_metadata' = r.cache_metadata
           /\ ret' = [NoRet EXCEPT !.op = "merge_new_data", !.symbol = symbol,
                                   !.bars = new_data, !.raised = r.raised,
                                   !.out = r.out]
    /\ nops' = nops + 1
    /\ submitted' = [submitted EXCEPT ![symbol] = @ \cup FrameDates(new_data)]
    /\ UNCHANGED now
    /\ UNCHANGED scanvars

(* Fetched payloads are merged into the store                              *)
MergeNext ==
    \E s \in Symbols, df \in MergeFrames, f \in BOOLEAN : MergeNewData(s, df, f)

MergeSpec == Init /\ [][MergeNext]_vars

----------------------------------------------------------------------------
(* Properties of the merge step, checked under MergeSpec                   *)

(* the stored bars of a symbol dated in the required window                *)
WindowRows(symbol) ==
    {r \in price_data : r.symbol = symbol /\ ReqStart <= r.date /\ r.date <= ReqEnd}

(* df is the content of the store for the required window: one row for    *)
(* every stored bar of the window, by ascending date                       *)
IsStoreWindow(df, symbol) ==
    /\ Ascending(df)
    /\ Len(df) = Cardinality(WindowRows(symbol))
    /\ {[symbol |-> symbol, date |-> df[i].date, close |-> df[i].close] :
           i \in 1..Len(df)} = WindowRows(symbol)

(* the last call was a merge_new_data that saved a payload                 *)
MergedAfterSave ==
    ret.op = "merge_new_data" /\ ret.bars # <<>> /\ ~ret.raised

(* C17 as stated: after a successful save merge_new_data returns the       *)
(* content of the store for the full required window, and never the        *)
(* fetched payload alone when the store holds more bars of the window than *)
(* the payload.                                                            *)
C17_MergeReturnsWindow ==
    MergedAfterSave =>
        /\ IsStoreWindow(ret.out[1], ret.symbol)
        /\ Cardinality(WindowRows(ret.symbol)) > Len(ret.bars)
               => ret.out[1] # ret.bars

(* C17 amended: after a successful save merge_new_data returns the content *)
(* of the store for the full required window whenever the store holds a    *)
(* bar of the window, and never the fetched payload alone when the store   *)
(* holds more bars of the window than the payload; when the store holds no *)
(* bar of the window it returns the payload, whose bars all lie outside    *)
(* the window.                                                             *)
C17_MergeReturnsWindowOrPayload ==
    MergedAfterSave =>
        /\ WindowRows(ret.symbol) # {} => IsStoreWindow(ret.out[1], ret.symbol)
        /\ Cardinality(WindowRows(ret.symbol)) > Len(ret.bars)
               => ret.out[1] # ret.bars
        /\ WindowRows(ret.symbol) = {}
               => /\ ret.out[1] = ret.bars
                  /\ \A d \in FrameDates(ret.bars) : d < ReqStart \/ d > ReqEnd

(* a payload merged into a store that already held other bars of the       *)
(* window: more bars come back than were fetched                           *)
C17_Witness ==
    /\ MergedAfterSave
    /\ Len(ret.out[1]) > Len(ret.bars)
    /\ FrameDates(ret.bars) \subseteq FrameDates(ret.out[1])

----------------------------------------------------------------------------
(* The scanner: src/src/scanner.py.  The broker and the ta library are the *)
(* environment: a fetch raises, returns no bar or returns a run of daily   *)
(* bars, and the oscillator takes a value of ScanRsi on every day that has *)
(* a full window behind it (the high threshold, so that a scan with enough *)
(* bars raises an alert).  A fault names the one statement of a scan     *)
(* that fails with an exception.  In these runs nops counts the calls of   *)
(* scan_symbol.                                                            *)

RSI_LOOKBACK_DAYS == 7

OVEREXTENDED_LOOKBACK_DAYS == 5

(* first and last day of the fetched bar sets: 20, 15 and 3 daily bars     *)
ScanRanges == {<<11, 30>>, <<16, 30>>, <<28, 30>>}

FetchOutcomes ==
    {[kind |-> "raise", df |-> <<>>], [kind |-> "empty", df |-> <<>>]}
    \cup {[kind |-> "bars", df |-> Frame(g[1], g[2], MinOf(Closes))] : g \in ScanRanges}

FaultPoints ==
    {"none", "strategy_read", "metadata_write", "compute", "indicators_write",
     "scan_result_write"}

ScanRsi == {RSI_HIGH_THRESHOLD}

TickerLists == {<<>>, <<"AAA">>, <<"AAA", "BBB">>}

(* the bars of a stored frame as the indicator engine reads them           *)
BarsOf(df) ==
    [i \in 1..Len(df) |->
        [low |-> df[i].close, high |-> df[i].close, close |-> df[i].close]]

(* the except block of get_historical_data giving up: it returns an empty  *)
(* frame without reading the cache                                         *)
FallbackWithoutCache(pd, meta, symbol, start_date, end_date, kind) ==
    [price_data |-> pd, cache_metadata |-> meta, raised |-> FALSE,
     df |-> <<>>, path |-> "fallback", fetch |-> kind]

(* get_historical_data, lines 115-121: the except block reads the cache    *)
FallbackToCache(pd, meta, symbol, start_date, end_date, kind) ==
    [price_data |-> pd, cache_metadata |-> meta, raised |-> FALSE,
     df |-> LET cached_data == get_cached_price_data(pd, symbol, start_date,
                                                     end_date)
            IN  IF cached_data # None THEN cached_data[1] ELSE <<>>,
     path |-> "fallback", fetch |-> kind]

(* get_historical_data, lines 111-113 and the except block for an          *)
(* exception of merge_new_data                                             *)
AfterMerge(m, symbol, start_date, end_date) ==
    IF m.raised
    THEN FallbackToCache(m.price_data, m.cache_metadata, symbol, start_date,
                         end_date, "bars")
    ELSE [price_data |-> m.price_data, cache_metadata |-> m.cache_metadata,
          raised |-> FALSE, df |-> m.out[1], path |-> "merged",
          fetch |-> "bars"]

(* RSIScanner.get_historical_data: the tables after the call, the frame    *)
(* returned and the path taken.  get_fetch_strategy is called outside the  *)
(* try block; every exception inside it, one of merge_new_data included,   *)
(* ends in the except block.                                               *)
get_historical_data(pd, meta, symbol, days, t, fetch, fault) ==
    LET start_date == t - days * TicksPerDay
        end_date   == t
    IN  IF fault = "strategy_read" THEN
            [price_data |-> pd, cache_metadata |-> meta, raised |-> TRUE,
             df |-> <<>>, path |-> "raised", fetch |-> "skipped"]
        ELSE IF /\ get_fetch_strategy(pd, meta, symbol, t) = None
                /\ get_cached_price_data(pd, symbol, start_date, end_date) # None
        THEN
            [price_data |-> pd, cache_metadata |-> meta, raised |-> FALSE,
             df |-> get_cached_price_data(pd, symbol, start_date, end_date)[1],
             path |-> "cache", fetch |-> "skipped"]
        ELSE IF fetch.kind = "raise" THEN
            FallbackToCache(pd, meta, symbol, start_date, end_date, "raise")
        ELSE IF fetch.kind = "empty" \/ fetch.df = <<>> THEN
            [price_data |-> pd, cache_metadata |-> meta, raised |-> FALSE,
             df |-> <<>>, path |-> "fetched_nothing", fetch |-> "empty"]
        ELSE
            AfterMerge(merge_new_data(pd, meta, symbol, fetch.df, t,
                                      fault = "metadata_write"),
                       symbol, start_date, end_date)

(* compute_indicators: nothing below max(RSI_WINDOW, ATR_WINDOW) + 1 bars; *)
(* otherwise the series of the ta library, the oscillator undefined on the *)
(* first RSI_WINDOW - 1 days                                               *)
compute_indicators(df, rsi_value, atr_value) ==
    IF Len(df) < Max(RSI_WINDOW, ATR_WINDOW) + 1 THEN
        [rsi_series |-> None, atr_series |-> None,
         latest_rsi |-> None, latest_atr |-> None]
    ELSE
        [rsi_series |-> Some(IndicatorSeries(Len(df), RSI_WINDOW - 1, rsi_value)),
         atr_series |-> Some(IndicatorSeries(Len(df), 0, atr_value)),
         latest_rsi |-> Some(rsi_value), latest_atr |-> Some(atr_value)]

(* scan_symbol, lines 185-190: the status label                            *)
StatusLabel(hit_high, hit_low, is_overextended) ==
    LET s1 == IF hit_high THEN "RSI>=90" ELSE "no_hit"
        s2 == IF hit_low
              THEN (IF s1 = "no_hit" THEN "RSI<=10" ELSE s1 \o ";RSI<=10")
              ELSE s1
    IN  IF is_overextended
        THEN (IF s2 = "no_hit" THEN "overextended" ELSE s2 \o ";overextended")
        ELSE s2

(* the dictionary scan_symbol returns without indicator values             *)
FailureResult(symbol, status) ==
    [symbol |-> symbol, status |-> status, latest_rsi |-> None,
     latest_atr |-> None, hit_high |-> FALSE, hit_low |-> FALSE,
     max_rsi |-> None, min_rsi |-> None, is_overextended |-> FALSE,
     swing_low |-> None, overextended_threshold |-> None,
     current_price |-> None, data_points |-> None, cached |-> None]

(* what one call of scan_symbol leaves: the tables, the dictionary and    *)
(* the outcome h of get_historical_data                                    *)
Ends(h, ind, sr, raised, result) ==
    [price_data |-> h.price_data, cache_metadata |-> h.cache_metadata,
     indicators |-> ind, scan_results |-> sr, raised |-> raised,
     caught |-> FALSE, result |-> result, hist |-> h]

(* scan_symbol, lines 160-229, after compute_indicators returned c, the    *)
(* extreme check x and the measurement o                                   *)
ScanWithIndicators(h, c, x, o, status, ind, sr, symbol, t, fault) ==
    IF fault = "indicators_write" THEN
        Ends(h, ind, sr, TRUE, FailureResult(symbol, "error"))
    ELSE IF fault = "scan_result_write" THEN
        Ends(h, save_indicators(ind, symbol, h.df, c.rsi_series[1],
                                c.atr_series[1]),
             sr, TRUE, FailureResult(symbol, "error"))
    ELSE
        Ends(h, save_indicators(ind, symbol, h.df, c.rsi_series[1],
                                c.atr_series[1]),
             save_scan_result(sr, t, symbol, status), FALSE,
             [symbol |-> symbol, status |-> status,
              latest_rsi |-> c.latest_rsi, latest_atr |-> c.latest_atr,
              hit_high |-> x.hit_high, hit_low |-> x.hit_low,
              max_rsi |-> x.max_rsi, min_rsi |-> x.min_rsi,
              is_overextended |-> o.is_overextended,
              swing_low |-> o.swing_low,
              overextended_threshold |-> o.threshold,
              current_price |-> o.current_price,
              data_points |-> Some(Len(h.df)),
              cached |-> Some(~should_fetch_data(h.price_data, h.cache_metadata,
                                                 symbol, t))])

(* scan_symbol, lines 143-190, after compute_indicators returned c         *)
ScanComputed(h, c, x, o, ind, sr, symbol, t, fault) ==
    ScanWithIndicators(h, c, x, o,
                       StatusLabel(x.hit_high, x.hit_low, o.is_overextended),
                       ind, sr, symbol, t, fault)

(* scan_symbol, lines 129-158, after get_historical_data returned h        *)
ScanHistory(h, c, ind, sr, symbol, t, fault) ==
    IF h.raised THEN Ends(h, ind, sr, TRUE, FailureResult(symbol, "error"))
    ELSE IF h.df = <<>> \/ Len(h.df) < Max(RSI_WINDOW, ATR_WINDOW) + 1 THEN
        Ends(h, ind, sr, FALSE, FailureResult(symbol, "insufficient_data"))
    ELSE IF fault = "compute" THEN
        Ends(h, ind, sr, TRUE, FailureResult(symbol, "error"))
    ELSE IF c.rsi_series = None \/ c.latest_rsi = None THEN
        Ends(h, ind, sr, FALSE, FailureResult(symbol, "calculation_failed"))
    ELSE
        ScanComputed(h, c,
                     check_rsi_extremes(c.rsi_series[1], RSI_LOOKBACK_DAYS,
                                        RSI_HIGH_THRESHOLD, RSI_LOW_THRESHOLD),
                     check_overextended(BarsOf(h.df), Number(c.latest_atr[1]),
                                        OVEREXTENDED_LOOKBACK_DAYS,
                                        OVEREXTENDED_ATR_MULTIPLIER),
                     ind, sr, symbol, t, fault)

(* the try block of scan_symbol, lines 126-229: raised = TRUE where a      *)
(* statement of it raises                                                  *)
ScanFetched(h, ind, sr, symbol, t, fault, rsi_value) ==
    ScanHistory(h, compute_indicators(h.df, rsi_value, ScanAtr),
                ind, sr, symbol, t, fault)

scan_symbol_body(pd, meta, ind, sr, symbol, t, fetch, fault, rsi_value) ==
    ScanFetched(get_historical_data(pd, meta, symbol, HIST_DAYS, t, fetch, fault),
                ind, sr, symbol, t, fault, rsi_value)

(* scan_symbol without its except block                                    *)
scan_symbol_without_handler(pd, meta, ind, sr, symbol, t, fetch, fault, rsi_value) ==
    scan_symbol_body(pd, meta, ind, sr, symbol, t, fetch, fault, rsi_value)

(* scan_symbol, lines 231-243: except Exception turns whatever the try    *)
(* block raised into the result with the error status                      *)
Handled(b) == [b EXCEPT !.caught = b.raised, !.raised = FALSE]

(* RSIScanner.scan_symbol                                                  *)
scan_symbol(pd, meta, ind, sr, symbol, t, fetch, fault, rsi_value) ==
    Handled(scan_symbol_body(pd, meta, ind, sr, symbol, t, fetch, fault,
                             rsi_value))

(* get_historical_data, lines 93-101: the days the broker is asked for,    *)
(* durationStr days back from endDateTime = '' (the present)               *)
HistoricalDataRequest(days, t) == [start |-> t - days * TicksPerDay, end |-> t]

(* a get_historical_data that asks the broker again after a failure        *)
FetchCallsWithRetry(h, symbol) ==
    IF h.fetch = "skipped" THEN <<>>
    ELSE IF h.fetch = "raise"
    THEN <<[kind |-> "fetch", symbol |-> symbol], [kind |-> "fetch", symbol |-> symbol]>>
    ELSE <<[kind |-> "fetch", symbol |-> symbol]>>

(* get_historical_data, lines 93-101: the one reqHistoricalData call of a  *)
(* scan that does not return from the cache                                *)
FetchCalls(h, symbol) ==
    IF h.fetch = "skipped" THEN <<>>
    ELSE <<[kind |-> "fetch", symbol |-> symbol]>>

(* a turn of the loop that goes on without a delay                         *)
NoPacing(symbol) == <<>>

(* run_scan, line 304: time.sleep(REQUEST_DELAY) at the end of every turn  *)
Pacing(symbol) == <<[kind |-> "sleep", symbol |-> symbol]>>

(* run_scan after connect_to_ib and fetch_sp500_tickers succeeded          *)
RunScanStart(list) ==
    /\ pc \in {"idle", "done"}
    /\ nops + Len(list) <= MaxOps
    /\ tickers' = list
    /\ results' = <<>>
    /\ idx' = 1
    /\ pc' = "scanning"
    /\ ret' = [NoRet EXCEPT !.op = "run_scan"]
    /\ UNCHANGED <<now, price_data, cache_metadata, nops, submitted>>
    /\ calls' = <<>>
    /\ UNCHANGED <<indicators, scan_results, returned, input>>

(* one turn of the loop of run_scan: scan_symbol and results.append; an    *)
(* exception leaving scan_symbol would leave run_scan as well              *)
RunScanStep(fetch, fault, rsi_value) ==
    /\ pc = "scanning"
    /\ idx <= Len(tickers)
    /\ \E symbol \in {tickers[idx]} :
       \E r \in {scan_symbol(price_data, cache_metadata, indicators,
                             scan_results, symbol, now, fetch, fault, rsi_value)} :
           /\ price_data' = r.price_data
           /\ cache_metadata' = r.cache_metadata
           /\ indicators' = r.indicators
           /\ scan_results' = r.scan_results
           /\ results' = IF r.raised THEN results ELSE Append(results, r.result)
           /\ pc' = IF r.raised THEN "failed" ELSE "scanning"
           /\ idx' = IF r.raised THEN idx ELSE idx + 1
           /\ ret' = [NoRet EXCEPT
                        !.op = "scan_symbol", !.symbol = symbol,
                        !.raised = r.raised, !.status = r.result.status,
                        !.fetch = r.hist.fetch, !.fault = fault,
                        !.bars = IF r.hist.fetch = "bars" THEN fetch.df ELSE <<>>,
                        !.range = IF fault = "strategy_read" THEN None
                                  ELSE get_fetch_strategy(price_data, cache_metadata,
                                                          symbol, now),
                        !.start = IF r.hist.fetch = "skipped" THEN 0
                                  ELSE HistoricalDataRequest(HIST_DAYS, now).start,
                        !.end = IF r.hist.fetch = "skipped" THEN 0
                                ELSE HistoricalDataRequest(HIST_DAYS, now).end,
                        !.df = IF r.hist.raised THEN None ELSE Some(r.hist.df),
                        !.degraded = (r.hist.path = "fallback"),
                        !.caught = r.caught,
                        !.out = Some(r.result)]
           /\ returned' =
                 IF r.hist.path \in {"cache", "merged"}
                    \/ (r.hist.path = "fallback" /\ r.hist.fetch = "raise")
                 THEN returned \cup {[path |-> r.hist.path, df |-> r.hist.df,
                                      result |-> r.result]}
                 ELSE returned
           /\ calls' = IF r.raised THEN calls
                       ELSE calls \o FetchCalls(r.hist, symbol) \o Pacing(symbol)
           /\ submitted' =
                 IF r.hist.fetch = "bars"
                 THEN [submitted EXCEPT ![symbol] = @ \cup FrameDates(fetch.df)]
                 ELSE submitted
    /\ nops' = nops + 1
    /\ UNCHANGED <<now, tickers, input>>

(* the end of run_scan: every ticker was scanned                           *)
RunScanEnd ==
    /\ pc = "scanning"
    /\ idx > Len(tickers)
    /\ pc' = "done"
    /\ ret' = [NoRet EXCEPT !.op = "run_scan"]
    /\ UNCHANGED <<now, price_data, cache_metadata, nops, submitted>>
    /\ UNCHANGED <<indicators, scan_results, idx, tickers, results, returned, calls, input>>

(* one turn of the loop with whatever the broker and the library do       *)
RunScanTurn ==
    \E fetch \in FetchOutcomes, fault \in FaultPoints, v \in ScanRsi :
        RunScanStep(fetch, fault, v)

(* Scan cycles run as the clock advances                                   *)
ScanNext ==
    \/ Tick
    \/ \E list \in TickerLists : RunScanStart(list)
    \/ RunScanTurn
    \/ RunScanEnd

ScanSpec == Init /\ [][ScanNext]_vars

----------------------------------------------------------------------------
(* Properties of the scanner, checked under ScanSpec                       *)

(* C11: every invocation of scan_symbol appends exactly one row to         *)
(* scan_results for that instrument, also when it ends in insufficient     *)
(* data, a failed calculation or a caught exception; the row carries the   *)
(* status of the result.                                                   *)
C11_OneRowPerScan ==
    [][ret'.op = "scan_symbol" =>
          /\ Len(scan_results') = Len(scan_results) + 1
          /\ scan_results'[Len(scan_results')].symbol = ret'.symbol
          /\ scan_results'[Len(scan_results')].status = ret'.status]_vars

(* the last scan met a failure: the fetch raised, a store write inside     *)
(* get_historical_data raised, or the except block of scan_symbol caught   *)
(* an exception                                                            *)
ScanMetFailure ==
    /\ ret.op = "scan_symbol"
    /\ \/ ret.fetch = "raise"
       \/ (ret.degraded /\ ret.fetch = "bars")
       \/ ret.caught

(* run_scan has one result per scanned ticker, in the order of the list,   *)
(* and no exception has left it; a scan_symbol that returned has put its   *)
(* result at the end of the list and moved the loop to the next ticker, so *)
(* the loop over the finite list ends after one turn per ticker            *)
OneResultPerTicker ==
    /\ pc # "failed"
    /\ ret.op = "scan_symbol" =>
          /\ ~ret.raised
          /\ ret.out # None
          /\ pc = "scanning"
          /\ idx >= 2
          /\ tickers[idx - 1] = ret.symbol
          /\ results[idx - 1] = ret.out[1]
    /\ pc = "scanning" =>
          /\ idx \in 1..(Len(tickers) + 1)
          /\ Len(results) = idx - 1
    /\ pc = "done" => Len(results) = Len(tickers)
    /\ pc \in {"scanning", "done"} =>
          \A i \in 1..Len(results) : results[i].symbol = tickers[i]

C16_FallbackDistinguishable ==
    \A a \in returned : \A b \in returned :
        (a.path = "fallback" /\ b.path \in {"cache", "merged"})
        => (a.df # b.df \/ a.result # b.result)

(* C25: whenever the fetch in get_historical_data succeeds with a          *)
(* non-empty bar set, every fetched bar is stored afterwards and the       *)
(* freshness record of the instrument is updated so that is_data_fresh     *)
(* holds, also when some of the fetched dates are already cached: a stale  *)
(* instrument is fresh after one scan in which the data source answers.    *)
(* No statement of the scan is made to fail.                               *)
C25_FetchedBarsStored ==
    [][(ret'.op = "scan_symbol" /\ ret'.fetch = "bars" /\ ret'.fault = "none") =>
          /\ FrameDates(ret'.bars) \subseteq StoredDates(price_data', ret'.symbol)
          /\ is_data_fresh(cache_metadata', ret'.symbol, now)]_vars

(* the first and the last day of the request sent to the broker and of the *)
(* range the coordinator computed                                          *)
RequestedDays == <<Date(ret.start), Date(ret.end)>>

(* C26: when a fetch is required, the range of dates requested from the    *)
(* external data source is exactly the range computed by the coordinator   *)
(* (get_fetch_strategy / get_missing_date_range): dates the cache already  *)
(* covers are not requested again.                                         *)
C26_RequestsComputedRange ==
    (ret.op = "scan_symbol" /\ ret.fetch # "skipped" /\ ret.fault # "strategy_read")
    => RangesOf(ret.range) = {RequestedDays}

(* the calls of the cycle that ask the broker for the bars of a symbol     *)
FetchesOf(symbol) ==
    {j \in DOMAIN calls : calls[j] = [kind |-> "fetch", symbol |-> symbol]}

(* the delays of the cycle, in the order they were made                    *)
Delays == SelectSeq(calls, LAMBDA c : c.kind = "sleep")

(* C28: within one cycle of run_scan the instruments are processed one at  *)
(* a time in the order of the ticker list, at most one external fetch is   *)
(* attempted per instrument (a failed or insufficient fetch is not tried   *)
(* again in the cycle), and a pacing delay follows each instrument before  *)
(* the fetch of the next one can start.                                    *)
C28_OneFetchThenPacing ==
    pc \in {"scanning", "done"} =>
        /\ Len(results) <= Len(tickers)
        /\ \A i \in 1..Len(results) : results[i].symbol = tickers[i]
        /\ \A s \in Symbols : Cardinality(FetchesOf(s)) <= 1
        /\ Len(Delays) = Len(results)
        /\ \A i \in 1..Len(Delays) : Delays[i].symbol = tickers[i]
        /\ \A j \in DOMAIN calls :
              calls[j].kind = "fetch" =>
                  /\ j = 1 \/ calls[j - 1].kind = "sleep"
                  /\ j < Len(calls)
                  /\ calls[j + 1] = [kind |-> "sleep", symbol |-> calls[j].symbol]

(* a finished cycle over two tickers: the fetch of the first raised and    *)
(* was not tried again, a delay followed, then the second was fetched and  *)
(* a delay followed                                                        *)
C28_Witness ==
    /\ pc = "done"
    /\ tickers = <<"AAA", "BBB">>
    /\ results[1].status = "insufficient_data"
    /\ calls = <<[kind |-> "fetch", symbol |-> "AAA"],
                 [kind |-> "sleep", symbol |-> "AAA"],
                 [kind |-> "fetch", symbol |-> "BBB"],
                 [kind |-> "sleep", symbol |-> "BBB"]>>

(* C29: the cached flag of a successful scan result is true if and only if *)
(* no external fetch was attempted for the instrument during that call of  *)
(* scan_symbol.                                                            *)
C29_CachedMeansNoFetch ==
    (ret.op = "scan_symbol" /\ ret.out # None /\ ret.out[1].cached # None)
    => (ret.out[1].cached[1] <=> ret.fetch = "skipped")

====
